---------------------------- MODULE Spec2Model ----------------------------
(***************************************************************************)
(* Credential pool manager (KeyManager), its process-wide singleton, the   *)
(* forward operations and reactivation sweep that use it, and the route    *)
(* handlers in front of them.                                              *)
(*                                                                         *)
(* Steps have the granularity of JavaScript's run-to-completion sections:  *)
(* the code between two awaits is one step.  The specifications:           *)
(*   Spec           request traffic and direct calls on a constructed pool *)
(*   SpecCalls      one caller using the public methods of the pool        *)
(*   SpecSweep      overlapping sweeps among the calls of other tasks      *)
(*   SpecRoutes     inbound requests served by the route handlers          *)
(*   SpecSingleton  getKeyManager, createKeyManager and resetKeyManager    *)
(***************************************************************************)
EXTENDS Naturals, Sequences, FiniteSets, TLC

\* ------------------------------------------------------------------ bounds

\* Largest pool the model constructs.
MaxKeys == 2

\* How far above maxFailures the model lets a failure count grow.
MaxOver == 1

\* Constructions of the pool (createKeyManager calls) the model follows.
MaxBuilds == 2

\* Default of the constructor's maxFailures parameter.
DefaultMaxFailures == 3

\* Credentials, in the order the store returns them, and one that is never
\* in any pool.
KeyNames == <<"A", "B", "C", "D">>
UnknownKey == "Z"

\* Thresholds the settings may hold.
Thresholds == {1, DefaultMaxFailures}

\* Values of `new Date()`.
Times == {1, 2}

\* Concurrent forward operations (tasks serving inbound requests).
Procs == {"p1", "p2"}

\* Tasks that call checkAndReactivateKeys or verifyKey; their calls may
\* overlap.  The history variables of the sweep follow the sweeps of one of
\* them; the other one also calls verifyKey on its own.
Sweepers == {"s1", "s2"}
Watched == "s1"

NoKey == "-"
NoKeysAvailable == "NoKeysAvailable"
AllKeysFailing == "AllKeysFailing"

\* ------------------------------------------------------------------ state

VARIABLES
    keys,              \* KeyManager.keys: the frozen credential list
    keyCycle,          \* KeyManager.keyCycle: index (0-based) cycle() yields next
    failureCounts,     \* KeyManager.failureCounts: Map credential -> count
    lastFailureTimes,  \* KeyManager.lastFailureTimes: Map credential -> Date
    maxFailures,       \* KeyManager.maxFailures
    fwd,               \* per forward operation: pc, credential in use, error
    http,              \* per task: the route handler serving its inbound request
    sweep,             \* per sweeping task, its checkAndReactivateKeys or verifyKey
                       \*          call: pc and the credentials still to check
    reports,           \* history: handleApiFailure calls per credential since its last reset
    lastIdx,           \* history: index in keys of the last credential selected (0: none)
    lastCall,          \* history: the last direct call of a pool method
    returned,          \* history: what the last read-only call returned (<<>>: none)
    swBase,            \* history: per credential inactive when the watched sweep
                       \*          started, the count it had then, or 0 once it has been
                       \*          reset since (by the sweep's check or by another task)
    swResult,          \* history: verifyKey calls of the watched sweep, in order; late:
                       \*          the call succeeded after another task had reported the
                       \*          credential
    touched,           \* history: credentials reported while the watched sweep runs
                       \*          (since their last reset, if any)
    during,            \* history: per credential of swBase, the handleApiFailure calls
                       \*          since the watched sweep started or, if later, its last reset
    keyManagerPromise, \* globalWithKeyManager.keyManagerPromise: 0 (null) or a construction
    builds,            \* the createKeyManager calls made so far, by number
    dbKeys,            \* the credential store: what prisma.apiKey.findMany() returns
    dbMaxFailures,     \* the settings store: MAX_FAILURES of getSettings()
    got,               \* history: promises getKeyManager returned since the last reset
    calls,             \* history: getKeyManager calls since the last reset (2: two or more)
    created,           \* history: constructions started since the last reset
    discarded,         \* history: the constructions resetKeyManager discarded
    resetSeen,         \* history: size of the credential store at the last reset
    stale              \* history: a getKeyManager call since the last reset returned a
                       \*          construction that had already failed

poolVars == <<keys, keyCycle, failureCounts, lastFailureTimes, maxFailures>>
histVars == <<reports, lastIdx, lastCall, returned, swBase, swResult, touched,
              during>>
routeVars == <<http>>
singletonVars == <<keyManagerPromise, builds, dbKeys, dbMaxFailures,
                   got, calls, created, discarded, resetSeen, stale>>
vars == <<keys, keyCycle, failureCounts, lastFailureTimes, maxFailures,
          fwd, http, sweep, reports, lastIdx, lastCall, returned, swBase, swResult, touched,
          during,
          keyManagerPromise, builds, dbKeys, dbMaxFailures,
          got, calls, created, discarded, resetSeen, stale>>

\* ------------------------------------------------------------------ helpers

Range(s) == {s[i] : i \in DOMAIN s}

EmptyMap == [k \in {} |-> 0]

MapSet(m, k, v) == [x \in (DOMAIN m) \cup {k} |-> IF x = k THEN v ELSE m[x]]

MapDelete(m, k) == [x \in (DOMAIN m) \ {k} |-> m[x]]

IndexOf(s, k) == CHOOSE i \in DOMAIN s : s[i] = k

\* ------------------------------------------------------------------ KeyManager

\* constructor(keys, maxFailures)
KeyManager(ks, mf) ==
    [keys |-> ks,
     keyCycle |-> 0,
     failureCounts |-> [k \in Range(ks) |-> 0],
     lastFailureTimes |-> EmptyMap,
     maxFailures |-> mf]

\* Variant: the threshold itself still counts as valid.
isKeyValid_inclusive(fc, mf, key) ==
    key \in DOMAIN fc /\ fc[key] <= mf

isKeyValid(fc, mf, key) ==
    key \in DOMAIN fc /\ fc[key] < mf

\* Variant: the loop gives up one record early.
RECURSIVE getNextWorkingKeyLoop_short(_, _, _, _, _)
getNextWorkingKeyLoop_short(ks, pos, fc, mf, i) ==
    IF i >= Len(ks) - 1
    THEN [result |-> AllKeysFailing, keyCycle |-> pos, visited |-> <<>>]
    ELSE LET key == ks[pos + 1]
             next == (pos + 1) % Len(ks)
         IN  IF isKeyValid(fc, mf, key)
             THEN [result |-> key, keyCycle |-> next, visited |-> <<pos + 1>>]
             ELSE LET r == getNextWorkingKeyLoop_short(ks, next, fc, mf, i + 1)
                  IN  [r EXCEPT !.visited = <<pos + 1>> \o @]

\* Variant: the loop runs while i <= keys.length.
RECURSIVE getNextWorkingKeyLoop_extra(_, _, _, _, _)
getNextWorkingKeyLoop_extra(ks, pos, fc, mf, i) ==
    IF i > Len(ks)
    THEN [result |-> AllKeysFailing, keyCycle |-> pos, visited |-> <<>>]
    ELSE LET key == ks[pos + 1]
             next == (pos + 1) % Len(ks)
         IN  IF isKeyValid(fc, mf, key)
             THEN [result |-> key, keyCycle |-> next, visited |-> <<pos + 1>>]
             ELSE LET r == getNextWorkingKeyLoop_extra(ks, next, fc, mf, i + 1)
                  IN  [r EXCEPT !.visited = <<pos + 1>> \o @]

\* The for loop of getNextWorkingKey: i iterations done, cycle at position pos.
\* visited: the indices in keys of the records keyCycle.next() yielded.
RECURSIVE getNextWorkingKeyLoop(_, _, _, _, _)
getNextWorkingKeyLoop(ks, pos, fc, mf, i) ==
    IF i >= Len(ks)
    THEN [result |-> AllKeysFailing, keyCycle |-> pos, visited |-> <<>>]
    ELSE LET key == ks[pos + 1]
             next == (pos + 1) % Len(ks)
         IN  IF isKeyValid(fc, mf, key)
             THEN [result |-> key, keyCycle |-> next, visited |-> <<pos + 1>>]
             ELSE LET r == getNextWorkingKeyLoop(ks, next, fc, mf, i + 1)
                  IN  [r EXCEPT !.visited = <<pos + 1>> \o @]

\* Variant: every call iterates the records from the first one.
getNextWorkingKey_restart(ks, pos, fc, mf) ==
    IF Len(ks) = 0
    THEN [result |-> NoKeysAvailable, keyCycle |-> pos, visited |-> <<>>]
    ELSE getNextWorkingKeyLoop(ks, 0, fc, mf, 0)

\* Variant: no check for the empty pool.
getNextWorkingKey_nocheck(ks, pos, fc, mf) ==
    getNextWorkingKeyLoop(ks, pos, fc, mf, 0)

getNextWorkingKey(ks, pos, fc, mf) ==
    IF Len(ks) = 0
    THEN [result |-> NoKeysAvailable, keyCycle |-> pos, visited |-> <<>>]
    ELSE getNextWorkingKeyLoop(ks, pos, fc, mf, 0)

\* Variant: the incremented count is logged but the old one stored.
handleApiFailure_stale(fc, lft, key, now) ==
    IF key \in DOMAIN fc
    THEN [failureCounts |-> fc,
          lastFailureTimes |-> MapSet(lft, key, now)]
    ELSE [failureCounts |-> fc, lastFailureTimes |-> lft]

\* Variant: the failure is counted twice.
handleApiFailure_double(fc, lft, key, now) ==
    IF key \in DOMAIN fc
    THEN [failureCounts |-> [fc EXCEPT ![key] = @ + 2],
          lastFailureTimes |-> MapSet(lft, key, now)]
    ELSE [failureCounts |-> fc, lastFailureTimes |-> lft]

\* Variant: the failure is counted against every credential of the pool.
handleApiFailure_all(fc, lft, key, now) ==
    IF key \in DOMAIN fc
    THEN [failureCounts |-> [k \in DOMAIN fc |-> fc[k] + 1],
          lastFailureTimes |-> MapSet(lft, key, now)]
    ELSE [failureCounts |-> fc, lastFailureTimes |-> lft]

\* Variant: no check that the credential is known.
handleApiFailure_nocheck(fc, lft, key, now) ==
    [failureCounts |-> MapSet(fc, key, (IF key \in DOMAIN fc THEN fc[key] ELSE 0) + 1),
     lastFailureTimes |-> MapSet(lft, key, now)]

handleApiFailure(fc, lft, key, now) ==
    IF key \in DOMAIN fc
    THEN [failureCounts |-> [fc EXCEPT ![key] = @ + 1],
          lastFailureTimes |-> MapSet(lft, key, now)]
    ELSE [failureCounts |-> fc, lastFailureTimes |-> lft]

\* Variant: the count is reset but the time of the last failure is kept.
resetKeyFailureCount_keepTime(fc, lft, key) ==
    IF key \in DOMAIN fc
    THEN [failureCounts |-> [fc EXCEPT ![key] = 0],
          lastFailureTimes |-> lft]
    ELSE [failureCounts |-> fc, lastFailureTimes |-> lft]

\* Variant: one failure is forgiven instead of all.
resetKeyFailureCount_decrement(fc, lft, key) ==
    IF key \in DOMAIN fc
    THEN [failureCounts |-> [fc EXCEPT ![key] = IF @ > 0 THEN @ - 1 ELSE 0],
          lastFailureTimes |-> MapDelete(lft, key)]
    ELSE [failureCounts |-> fc, lastFailureTimes |-> lft]

resetKeyFailureCount(fc, lft, key) ==
    IF key \in DOMAIN fc
    THEN [failureCounts |-> [fc EXCEPT ![key] = 0],
          lastFailureTimes |-> MapDelete(lft, key)]
    ELSE [failureCounts |-> fc, lastFailureTimes |-> lft]

\* `lastFailureTimes.get(key) || null`: the value of null.
NoTime == 0

\* Variant: isWorking is computed from the time of the last failure.
getAllKeys_byTime(ks, fc, lft, mf) ==
    [i \in 1..Len(ks) |->
        [key |-> ks[i],
         failCount |-> fc[ks[i]],
         isWorking |-> ks[i] \notin DOMAIN lft,
         lastFailedAt |-> IF ks[i] \in DOMAIN lft THEN lft[ks[i]] ELSE NoTime]]

\* getAllKeys(): keys.map(...), one entry per credential in the order of keys.
getAllKeys(ks, fc, lft, mf) ==
    [i \in 1..Len(ks) |->
        [key |-> ks[i],
         failCount |-> fc[ks[i]],
         isWorking |-> isKeyValid(fc, mf, ks[i]),
         lastFailedAt |-> IF ks[i] \in DOMAIN lft THEN lft[ks[i]] ELSE NoTime]]

\* Variant: the filter keeps the valid credentials.
inactiveKeys_inverted(ks, fc, mf) ==
    SelectSeq(ks, LAMBDA k : isKeyValid(fc, mf, k))

\* checkAndReactivateKeys: this.keys.filter((key) => !this.isKeyValid(key))
inactiveKeys(ks, fc, mf) ==
    SelectSeq(ks, LAMBDA k : ~isKeyValid(fc, mf, k))

\* ------------------------------------------------------------------ Init

Pools == {SubSeq(KeyNames, 1, n) : n \in 0..MaxKeys}

\* No inbound request is being served by the task.
NoRequest == [route |-> "none", pc |-> "idle", authed |-> FALSE, tries |-> 0,
              err |-> "none", logFailed |-> FALSE, status |-> 0, body |-> "none"]

Idle == [pc |-> "idle", key |-> NoKey, err |-> "none"]

SweepIdle == [pc |-> "idle", todo |-> <<>>, call |-> "none"]

Call(name, key) == [op |-> name, key |-> key]

NoPromise == 0

\* No construction has been asked for; the store holds no credential yet.
SingletonInit ==
    /\ keyManagerPromise = NoPromise
    /\ builds = <<>>
    /\ dbKeys = <<>>
    /\ dbMaxFailures = DefaultMaxFailures
    /\ got = {}
    /\ calls = 0
    /\ created = 0
    /\ discarded = {}
    /\ resetSeen = 0
    /\ stale = FALSE

Init ==
    \E ks \in Pools, mf \in Thresholds :
        LET km == KeyManager(ks, mf) IN
        /\ SingletonInit
        /\ keys = km.keys
        /\ keyCycle = km.keyCycle
        /\ failureCounts = km.failureCounts
        /\ lastFailureTimes = km.lastFailureTimes
        /\ maxFailures = km.maxFailures
        /\ fwd = [p \in Procs |-> Idle]
        /\ http = [p \in Procs |-> NoRequest]
        /\ sweep = [s \in Sweepers |-> SweepIdle]
        /\ reports = [k \in Range(ks) |-> 0]
        /\ lastIdx = 0
        /\ lastCall = Call("constructor", NoKey)
        /\ returned = <<>>
        /\ swBase = EmptyMap
        /\ swResult = <<>>
        /\ touched = {}
        /\ during = EmptyMap

\* Credentials a caller may name: those of the pool and one outside it.
KeyArgs == Range(keys) \cup {UnknownKey}

\* Bound of the model on a failure count.
MaxCount == maxFailures + MaxOver

CanReport(key) == key \in DOMAIN failureCounts => failureCounts[key] < MaxCount

\* The watched task is inside a checkAndReactivateKeys call.
Sweeping == sweep[Watched].pc # "idle"

\* history update of a handleApiFailure(key) call
Reported(key) ==
    IF key \in DOMAIN reports THEN [reports EXCEPT ![key] = @ + 1] ELSE reports

\* history update of a resetKeyFailureCount(key) call
Cleared(key) ==
    IF key \in DOMAIN reports THEN [reports EXCEPT ![key] = 0] ELSE reports

\* history of a handleApiFailure(key) call, whoever makes it
NoteReport(key) ==
    /\ reports' = Reported(key)
    /\ touched' = IF Sweeping THEN touched \cup {key} ELSE touched
    /\ during' = IF key \in DOMAIN during THEN [during EXCEPT ![key] = @ + 1] ELSE during
    /\ UNCHANGED swBase

\* history of a resetKeyFailureCount(key) call, whoever makes it
NoteReset(key) ==
    /\ reports' = Cleared(key)
    /\ touched' = touched \ {key}
    /\ during' = IF key \in DOMAIN during THEN [during EXCEPT ![key] = 0] ELSE during
    /\ swBase' = IF key \in DOMAIN swBase THEN [swBase EXCEPT ![key] = 0] ELSE swBase

\* ------------------------------------------------------------------ forward

\* proxyRequest, step 1: take a credential from the pool.
ProxySelectStep(p) ==
    /\ fwd[p].pc = "idle"
    /\ LET r == getNextWorkingKey(keys, keyCycle, failureCounts, maxFailures) IN
       /\ keyCycle' = r.keyCycle
       /\ IF r.result \in {NoKeysAvailable, AllKeysFailing}
          THEN /\ fwd' = [fwd EXCEPT ![p] = [pc |-> "failed", key |-> NoKey, err |-> r.result]]
               /\ lastIdx' = lastIdx
          ELSE /\ fwd' = [fwd EXCEPT ![p] = [pc |-> "inflight", key |-> r.result, err |-> "none"]]
               /\ lastIdx' = IndexOf(keys, r.result)
    /\ UNCHANGED <<keys, failureCounts, lastFailureTimes, maxFailures, sweep,
                   reports, lastCall, returned, swBase, swResult, touched,
                   during>>
    /\ UNCHANGED singletonVars

\* The selection failed: the error goes to the route handler, which answers 500.
ProxySelectFailedStep(p) ==
    /\ fwd[p].pc = "failed"
    /\ fwd' = [fwd EXCEPT ![p] = Idle]
    /\ UNCHANGED <<poolVars, sweep, histVars>>
    /\ UNCHANGED singletonVars

\* The upstream answered 2xx: relayed, nothing reported to the pool.
ProxyUpstreamOkStep(p) ==
    /\ fwd[p].pc = "inflight"
    /\ fwd' = [fwd EXCEPT ![p] = Idle]
    /\ UNCHANGED <<poolVars, sweep, histVars>>
    /\ UNCHANGED singletonVars

\* The upstream answered non-2xx, or the transport failed: reported, then answered.
ProxyUpstreamFailureAt(p, now) ==
    /\ fwd[p].pc = "inflight"
    /\ CanReport(fwd[p].key)
    /\ LET r == handleApiFailure(failureCounts, lastFailureTimes, fwd[p].key, now) IN
        /\ failureCounts' = r.failureCounts
        /\ lastFailureTimes' = r.lastFailureTimes
    /\ NoteReport(fwd[p].key)
    /\ fwd' = [fwd EXCEPT ![p] = Idle]
    /\ UNCHANGED <<keys, keyCycle, maxFailures, sweep, lastIdx, lastCall, returned, swResult>>
    /\ UNCHANGED singletonVars

ProxyUpstreamFailureStep(p) == \E now \in Times : ProxyUpstreamFailureAt(p, now)

\* The inbound caller went away while the upstream call was in flight.
ProxyCancelledStep(p) ==
    /\ fwd[p].pc = "inflight"
    /\ fwd' = [fwd EXCEPT ![p] = Idle]
    /\ UNCHANGED <<poolVars, sweep, histVars>>
    /\ UNCHANGED singletonVars

\* The steps of a forward operation that no route handler is observed for.
ProxySelect(p) ==
    /\ ProxySelectStep(p)
    /\ UNCHANGED routeVars

ProxySelectFailed(p) ==
    /\ ProxySelectFailedStep(p)
    /\ UNCHANGED routeVars

ProxyUpstreamOk(p) ==
    /\ ProxyUpstreamOkStep(p)
    /\ UNCHANGED routeVars

ProxyUpstreamFailure(p) ==
    /\ ProxyUpstreamFailureStep(p)
    /\ UNCHANGED routeVars

ProxyCancelled(p) ==
    /\ ProxyCancelledStep(p)
    /\ UNCHANGED routeVars

\* ------------------------------------------------------------------ direct calls

\* handleApiFailure(key) called directly by a holder of the pool.
HandleApiFailureStep(key, now) ==
    /\ CanReport(key)
    /\ LET r == handleApiFailure(failureCounts, lastFailureTimes, key, now) IN
        /\ failureCounts' = r.failureCounts
        /\ lastFailureTimes' = r.lastFailureTimes
    /\ NoteReport(key)
    /\ UNCHANGED <<keys, keyCycle, maxFailures, fwd, sweep, lastIdx, swResult>>
    /\ UNCHANGED <<singletonVars, routeVars>>

\* resetKeyFailureCount(key) called directly by a holder of the pool.
ResetKeyFailureCountStep(key) ==
    /\ LET r == resetKeyFailureCount(failureCounts, lastFailureTimes, key) IN
        /\ failureCounts' = r.failureCounts
        /\ lastFailureTimes' = r.lastFailureTimes
    /\ NoteReset(key)
    /\ UNCHANGED <<keys, keyCycle, maxFailures, fwd, sweep, lastIdx, swResult>>
    /\ UNCHANGED <<singletonVars, routeVars>>

\* The direct calls as steps of other tasks, among the request traffic.
HandleApiFailureCall(key, now) ==
    /\ HandleApiFailureStep(key, now)
    /\ UNCHANGED <<lastCall, returned>>

ResetKeyFailureCountCall(key) ==
    /\ ResetKeyFailureCountStep(key)
    /\ UNCHANGED <<lastCall, returned>>

\* The direct calls of a single caller, with the call kept as history.
CallerHandleApiFailure(key, now) ==
    /\ HandleApiFailureStep(key, now)
    /\ lastCall' = Call("handleApiFailure", key)
    /\ returned' = <<>>

CallerResetKeyFailureCount(key) ==
    /\ ResetKeyFailureCountStep(key)
    /\ lastCall' = Call("resetKeyFailureCount", key)
    /\ returned' = <<>>

\* getNextWorkingKey() called by another task, which keeps what it gets.
GetNextWorkingKeyCall ==
    /\ LET r == getNextWorkingKey(keys, keyCycle, failureCounts, maxFailures) IN
       /\ keyCycle' = r.keyCycle
       /\ lastIdx' = IF r.result \in {NoKeysAvailable, AllKeysFailing}
                     THEN lastIdx
                     ELSE IndexOf(keys, r.result)
    /\ UNCHANGED <<keys, failureCounts, lastFailureTimes, maxFailures, fwd, sweep,
                   reports, lastCall, returned, swBase, swResult, touched, during>>
    /\ UNCHANGED <<singletonVars, routeVars>>

\* getAllKeys() called by the caller: the view is returned, nothing is written.
GetAllKeysCall ==
    /\ lastCall' = Call("getAllKeys", NoKey)
    /\ returned' = getAllKeys(keys, failureCounts, lastFailureTimes, maxFailures)
    /\ UNCHANGED <<poolVars, fwd, sweep, reports, lastIdx, swBase, swResult, touched,
                   during>>
    /\ UNCHANGED <<singletonVars, routeVars>>

\* isKeyValid(key) called by the caller: a boolean is returned, nothing is written.
IsKeyValidCall(key) ==
    /\ lastCall' = Call("isKeyValid", key)
    /\ returned' = <<isKeyValid(failureCounts, maxFailures, key)>>
    /\ UNCHANGED <<poolVars, fwd, sweep, reports, lastIdx, swBase, swResult, touched,
                   during>>
    /\ UNCHANGED <<singletonVars, routeVars>>

\* ------------------------------------------------------------------ sweep

\* verifyKey of task s returns result: its promise settles, and the for loop
\* that awaits it goes on in a later section; a task that called verifyKey on
\* its own keeps the boolean.
VerifyKeyReturns(s, result) ==
    /\ sweep' = [sweep EXCEPT ![s] = IF @.call = "verifyKey"
                                     THEN SweepIdle
                                     ELSE [@ EXCEPT !.pc = "returned"]]
    /\ swResult' = IF s = Watched
                   THEN Append(swResult,
                               [key |-> Head(sweep[s].todo), ok |-> result,
                                late |-> result /\ Head(sweep[s].todo) \in touched])
                   ELSE swResult

\* What a step of a sweep that writes nothing leaves alone.
SweepFrame ==
    /\ UNCHANGED <<poolVars, fwd, reports, lastIdx, lastCall, returned, swBase, touched,
                   during>>
    /\ UNCHANGED <<singletonVars, routeVars>>

\* Variant: a failed check rejects, and the rejection ends the for loop (of
\* the watched sweep).
SweepAdvance_abort(s) ==
    /\ sweep[s].pc = "returned"
    /\ sweep' = [sweep EXCEPT ![s] =
                    IF Len(sweep[s].todo) = 1
                          \/ (s = Watched /\ ~swResult[Len(swResult)].ok)
                    THEN [@ EXCEPT !.pc = "done", !.todo = <<>>]
                    ELSE [@ EXCEPT !.pc = "settings", !.todo = Tail(@)]]
    /\ UNCHANGED swResult
    /\ SweepFrame

\* `await this.verifyKey(key)` resumes, the boolean is dropped: the for loop
\* calls verifyKey for the next credential (up to its first await), or ends.
SweepAdvance(s) ==
    /\ sweep[s].pc = "returned"
    /\ sweep' = [sweep EXCEPT ![s] =
                    IF Len(sweep[s].todo) = 1
                    THEN [@ EXCEPT !.pc = "done", !.todo = <<>>]
                    ELSE [@ EXCEPT !.pc = "settings", !.todo = Tail(@)]]
    /\ UNCHANGED swResult
    /\ SweepFrame

\* checkAndReactivateKeys called by task s, up to the first await (or to its
\* early return).  Nothing keeps the sweeps of two tasks from overlapping.
CheckAndReactivateKeys(s) ==
    /\ sweep[s].pc = "idle"
    /\ LET inactive == inactiveKeys(keys, failureCounts, maxFailures)
           unhealthy == {x \in Range(keys) : failureCounts[x] >= maxFailures}
       IN  /\ sweep' = [sweep EXCEPT ![s] =
                           IF inactive = <<>>
                           THEN SweepIdle
                           ELSE [pc |-> "settings", todo |-> inactive,
                                 call |-> "checkAndReactivateKeys"]]
           /\ IF s = Watched
              THEN /\ swBase' = [k \in unhealthy |-> failureCounts[k]]
                   /\ during' = [k \in unhealthy |-> 0]
                   /\ swResult' = <<>>
                   /\ touched' = {}
              ELSE UNCHANGED <<swBase, during, swResult, touched>>
    /\ UNCHANGED <<poolVars, fwd, reports, lastIdx, lastCall, returned>>
    /\ UNCHANGED <<singletonVars, routeVars>>

\* verifyKey(key) called by task s on its own, up to its first await.
VerifyKeyCall(s, key) ==
    /\ sweep[s].pc = "idle"
    /\ sweep' = [sweep EXCEPT ![s] =
                    [pc |-> "settings", todo |-> <<key>>, call |-> "verifyKey"]]
    /\ UNCHANGED swResult
    /\ SweepFrame

\* verifyKey: getSettings() resolved; the health-check request is sent.
VerifyKeySettings(s) ==
    /\ sweep[s].pc = "settings"
    /\ sweep' = [sweep EXCEPT ![s].pc = "fetch"]
    /\ UNCHANGED swResult
    /\ SweepFrame

\* verifyKey: getSettings() rejected; caught, returns false.
VerifyKeySettingsRejected(s) ==
    /\ sweep[s].pc = "settings"
    /\ VerifyKeyReturns(s, FALSE)
    /\ SweepFrame

\* verifyKey: the upstream answered 2xx; the count is reset, returns true.
VerifyKeyOk(s) ==
    /\ sweep[s].pc = "fetch"
    /\ LET key == Head(sweep[s].todo)
           r == resetKeyFailureCount(failureCounts, lastFailureTimes, key)
       IN  /\ failureCounts' = r.failureCounts
           /\ lastFailureTimes' = r.lastFailureTimes
           /\ NoteReset(key)
    /\ VerifyKeyReturns(s, TRUE)
    /\ UNCHANGED <<keys, keyCycle, maxFailures, fwd, lastIdx, lastCall, returned>>
    /\ UNCHANGED <<singletonVars, routeVars>>

\* verifyKey: the upstream answered non-2xx; `await response.json()` reads the
\* body of the answer.
VerifyKeyNotOk(s) ==
    /\ sweep[s].pc = "fetch"
    /\ sweep' = [sweep EXCEPT ![s].pc = "json"]
    /\ UNCHANGED swResult
    /\ SweepFrame

\* verifyKey: fetch rejected; caught, returns false.
VerifyKeyFetchRejected(s) ==
    /\ sweep[s].pc = "fetch"
    /\ VerifyKeyReturns(s, FALSE)
    /\ SweepFrame

\* verifyKey: the body of the non-2xx answer was read (or could not be, and is
\* taken as {}); the error is thrown and caught, returns false.
VerifyKeyFailed(s) ==
    /\ sweep[s].pc = "json"
    /\ VerifyKeyReturns(s, FALSE)
    /\ SweepFrame

\* The promise of checkAndReactivateKeys resolves: the sweep of task s is over.
SweepReturn(s) ==
    /\ sweep[s].pc = "done"
    /\ sweep' = [sweep EXCEPT ![s] = SweepIdle]
    /\ IF s = Watched
       THEN /\ swBase' = EmptyMap
            /\ during' = EmptyMap
            /\ swResult' = <<>>
            /\ touched' = {}
       ELSE UNCHANGED <<swBase, during, swResult, touched>>
    /\ UNCHANGED <<poolVars, fwd, reports, lastIdx, lastCall, returned>>
    /\ UNCHANGED <<singletonVars, routeVars>>

\* ------------------------------------------------------------------ Spec

\* The pool under request traffic and direct calls of its methods.
Next ==
    \/ \E p \in Procs : ProxySelect(p)
    \/ \E p \in Procs : ProxySelectFailed(p)
    \/ \E p \in Procs : ProxyUpstreamOk(p)
    \/ \E p \in Procs : ProxyUpstreamFailure(p)
    \/ \E p \in Procs : ProxyCancelled(p)
    \/ \E key \in KeyArgs, now \in Times : HandleApiFailureCall(key, now)
    \/ \E key \in KeyArgs : ResetKeyFailureCountCall(key)

Spec == Init /\ [][Next]_vars

\* The task that calls the methods of the pool one after the other.
Caller == "p1"

\* The pool driven by one caller: selections and direct calls, in any order.
NextCalls ==
    \/ ProxySelect(Caller)
    \/ ProxySelectFailed(Caller)
    \/ ProxyUpstreamOk(Caller)
    \/ \E key \in KeyArgs, now \in Times : CallerHandleApiFailure(key, now)
    \/ \E key \in KeyArgs : CallerResetKeyFailureCount(key)
    \/ GetAllKeysCall
    \/ \E key \in KeyArgs : IsKeyValidCall(key)

SpecCalls == Init /\ [][NextCalls]_vars

\* Reactivation sweeps, which may overlap, running concurrently with what
\* the other holders of the pool do to it: the selections, failure reports
\* and success reports that request traffic makes for the credentials of
\* the pool, and health checks of single credentials.
NextSweep ==
    \/ GetNextWorkingKeyCall
    \/ \E key \in Range(keys), now \in Times : HandleApiFailureCall(key, now)
    \/ \E key \in Range(keys) : ResetKeyFailureCountCall(key)
    \/ \E s \in Sweepers : CheckAndReactivateKeys(s)
    \/ \E s \in Sweepers \ {Watched}, key \in Range(keys) : VerifyKeyCall(s, key)
    \/ \E s \in Sweepers : VerifyKeySettings(s)
    \/ \E s \in Sweepers : VerifyKeySettingsRejected(s)
    \/ \E s \in Sweepers : VerifyKeyOk(s)
    \/ \E s \in Sweepers : VerifyKeyNotOk(s)
    \/ \E s \in Sweepers : VerifyKeyFetchRejected(s)
    \/ \E s \in Sweepers : VerifyKeyFailed(s)
    \/ \E s \in Sweepers : SweepAdvance(s)
    \/ \E s \in Sweepers : SweepReturn(s)

SpecSweep == Init /\ [][NextSweep]_vars

\* ------------------------------------------------------------------ routes

\* The route handlers: POST gemini/v1beta/[...model], POST v1beta/[...model],
\* GET openai/v1/models, POST openai/v1/embeddings and
\* POST openai/v1/images/generations.
Routes == {"gemini", "v1beta", "models", "embeddings", "images"}

\* Status codes a reachable upstream answers with, apart from 200.
UpstreamErrors == {429, 503}

GenericBody == "Internal Server Error"

\* What a handler does first: `await isAuthenticated(request)`, or, in the
\* GET handler of openai/v1/models, `await proxyRequest(request, "/openai")`.
handlerEntry(route) == IF route = "models" THEN "core" ELSE "auth"

\* What a handler awaits once isAuthenticated has reported no error:
\* getSettings() in embeddings, request.json() in images, proxyRequest in the
\* others.
handlerCore(route) ==
    CASE route = "embeddings" -> "settings"
      [] route = "images" -> "reqjson"
      [] OTHER -> "core"

\* What callImagenApi rejects with.
ImagenErrors == {AllKeysFailing, "ImagenError"}

\* Variant: the catch block answers with the message of the error.
catchResponse_leak(e) == [status |-> 500, body |-> e]

\* The response every catch block ends with.
catchResponse(e) == [status |-> 500, body |-> GenericBody]

Serving(p, at) == http[p].pc = at

Goto(p, at) == http' = [http EXCEPT ![p].pc = at]

Answer(p, st, bd) ==
    http' = [http EXCEPT ![p].pc = "done", ![p].status = st, ![p].body = bd]

\* The handler's try block threw e: the catch block starts `await logErrorToDB`.
Caught(p, e) == http' = [http EXCEPT ![p].pc = "logging", ![p].err = e]

RouteFrame == UNCHANGED <<poolVars, fwd, sweep, histVars, singletonVars>>

\* An inbound request reaches a handler.
RouteRequest(p, route) ==
    /\ Serving(p, "idle")
    /\ fwd[p].pc = "idle"
    /\ http' = [http EXCEPT ![p] = [NoRequest EXCEPT !.route = route,
                                                      !.pc = handlerEntry(route)]]
    /\ RouteFrame

\* isAuthenticated resolved to null: the handler goes on to its core.
RouteAuthOk(p) ==
    /\ Serving(p, "auth")
    /\ http' = [http EXCEPT ![p].authed = TRUE,
                            ![p].pc = handlerCore(http[p].route)]
    /\ RouteFrame

\* isAuthenticated resolved to a response: `return authError`.
RouteAuthDenied(p) ==
    /\ Serving(p, "auth")
    /\ Answer(p, 401, "authError")
    /\ RouteFrame

\* isAuthenticated rejected.
RouteAuthThrows(p) ==
    /\ Serving(p, "auth")
    /\ Caught(p, "AuthUnavailable")
    /\ RouteFrame

\* proxyRequest takes a credential from the pool.
RouteProxySelect(p) ==
    /\ Serving(p, "core")
    /\ ProxySelectStep(p)
    /\ http' = [http EXCEPT ![p].tries = @ + 1]

\* proxyRequest rejects with the error of the selection.
RouteProxyThrows(p) ==
    /\ Serving(p, "core")
    /\ ProxySelectFailedStep(p)
    /\ Caught(p, fwd[p].err)

\* The upstream answered 2xx: proxyRequest resolves to the relayed response.
RouteRelayOk(p) ==
    /\ Serving(p, "core")
    /\ ProxyUpstreamOkStep(p)
    /\ Answer(p, 200, "upstream")

\* The upstream answered non-2xx: reported to the pool, then relayed unchanged.
RouteRelayError(p, st) ==
    /\ Serving(p, "core")
    /\ ProxyUpstreamFailureStep(p)
    /\ Answer(p, st, "upstream")

\* The upstream could not be reached: reported to the pool, then proxyRequest rejects.
RouteTransportError(p) ==
    /\ Serving(p, "core")
    /\ ProxyUpstreamFailureStep(p)
    /\ Caught(p, "TransportError")

\* The client went away during the upstream call.
RouteCancelled(p) ==
    /\ Serving(p, "core")
    /\ ProxyCancelledStep(p)
    /\ http' = [http EXCEPT ![p] = NoRequest]

\* embeddings: getSettings() resolved; without PROXY_URL the handler answers
\* at once, with it the headers are built and `await getRequestBody(request)`
\* reads the body of the request.
RouteEmbSettings(p, proxyUrl) ==
    /\ Serving(p, "settings")
    /\ IF proxyUrl THEN Goto(p, "body") ELSE Answer(p, 500, "NotConfigured")
    /\ RouteFrame

\* embeddings: getSettings() rejected.
RouteEmbSettingsThrows(p) ==
    /\ Serving(p, "settings")
    /\ Caught(p, "ConfigurationError")
    /\ RouteFrame

\* embeddings: the body was read; the request is sent to the upstream proxy.
RouteEmbBody(p) ==
    /\ Serving(p, "body")
    /\ Goto(p, "fetch")
    /\ RouteFrame

\* embeddings: getRequestBody() rejected.
RouteEmbBodyThrows(p) ==
    /\ Serving(p, "body")
    /\ Caught(p, "BodyError")
    /\ RouteFrame

\* embeddings: the upstream answered; status and body are relayed.
RouteEmbRelay(p, st) ==
    /\ Serving(p, "fetch")
    /\ Answer(p, st, "upstream")
    /\ RouteFrame

\* embeddings: fetch rejected.
RouteEmbFetchThrows(p) ==
    /\ Serving(p, "fetch")
    /\ Caught(p, "TransportError")
    /\ RouteFrame

\* images: request.json() resolved; without a prompt the handler answers 400,
\* with one it calls callImagenApi.
RouteImgBody(p, prompt) ==
    /\ Serving(p, "reqjson")
    /\ IF prompt THEN Goto(p, "imagen") ELSE Answer(p, 400, "Prompt is required.")
    /\ RouteFrame

\* images: request.json() rejected.
RouteImgBodyThrows(p) ==
    /\ Serving(p, "reqjson")
    /\ Caught(p, "BodyError")
    /\ RouteFrame

\* images: callImagenApi resolved; its result is the body of the answer.
RouteImgOk(p) ==
    /\ Serving(p, "imagen")
    /\ Answer(p, 200, "image")
    /\ RouteFrame

\* images: callImagenApi rejected.
RouteImgThrows(p, e) ==
    /\ Serving(p, "imagen")
    /\ Caught(p, e)
    /\ RouteFrame

\* catch block: logErrorToDB resolved.
RouteLogged(p) ==
    /\ Serving(p, "logging")
    /\ Answer(p, catchResponse(http[p].err).status, catchResponse(http[p].err).body)
    /\ RouteFrame

\* catch block: logErrorToDB rejected; the inner catch writes to the console.
RouteLogFailed(p) ==
    /\ Serving(p, "logging")
    /\ http' = [http EXCEPT ![p].pc = "done", ![p].logFailed = TRUE,
                            ![p].status = catchResponse(http[p].err).status,
                            ![p].body = catchResponse(http[p].err).body]
    /\ RouteFrame

\* The response has been sent.
RouteRespond(p) ==
    /\ Serving(p, "done")
    /\ http' = [http EXCEPT ![p] = NoRequest]
    /\ RouteFrame

\* The tasks that serve inbound requests through a route handler.
Servers == {Caller}

\* Inbound requests served by the route handlers over the pool.
NextRoutes ==
    \/ \E p \in Servers, route \in Routes : RouteRequest(p, route)
    \/ \E p \in Servers : RouteAuthOk(p)
    \/ \E p \in Servers : RouteAuthDenied(p)
    \/ \E p \in Servers : RouteAuthThrows(p)
    \/ \E p \in Servers : RouteProxySelect(p)
    \/ \E p \in Servers : RouteProxyThrows(p)
    \/ \E p \in Servers : RouteRelayOk(p)
    \/ \E p \in Servers, st \in UpstreamErrors : RouteRelayError(p, st)
    \/ \E p \in Servers : RouteTransportError(p)
    \/ \E p \in Servers : RouteCancelled(p)
    \/ \E p \in Servers, proxyUrl \in BOOLEAN : RouteEmbSettings(p, proxyUrl)
    \/ \E p \in Servers : RouteEmbSettingsThrows(p)
    \/ \E p \in Servers : RouteEmbBody(p)
    \/ \E p \in Servers : RouteEmbBodyThrows(p)
    \/ \E p \in Servers, st \in UpstreamErrors \cup {200} : RouteEmbRelay(p, st)
    \/ \E p \in Servers : RouteEmbFetchThrows(p)
    \/ \E p \in Servers, prompt \in BOOLEAN : RouteImgBody(p, prompt)
    \/ \E p \in Servers : RouteImgBodyThrows(p)
    \/ \E p \in Servers : RouteImgOk(p)
    \/ \E p \in Servers, e \in ImagenErrors : RouteImgThrows(p, e)
    \/ \E p \in Servers : RouteLogged(p)
    \/ \E p \in Servers : RouteLogFailed(p)
    \/ \E p \in Servers : RouteRespond(p)

SpecRoutes == Init /\ [][NextRoutes]_vars

\* ------------------------------------------------------------------ singleton

\* Variant: the global is only trusted once its construction has completed.
getKeyManager_unguarded(promise, bs) ==
    IF promise = NoPromise \/ bs[promise].phase # "resolved"
    THEN [promise |-> Len(bs) + 1, create |-> TRUE]
    ELSE [promise |-> promise, create |-> FALSE]

\* Variant: a construction that failed is replaced by a new one.
getKeyManager_retry(promise, bs) ==
    IF promise = NoPromise \/ bs[promise].phase = "rejected"
    THEN [promise |-> Len(bs) + 1, create |-> TRUE]
    ELSE [promise |-> promise, create |-> FALSE]

\* getKeyManager: the promise it returns, and whether createKeyManager is called.
getKeyManager(promise, bs) ==
    IF promise = NoPromise
    THEN [promise |-> Len(bs) + 1, create |-> TRUE]
    ELSE [promise |-> promise, create |-> FALSE]

\* Variant: the reset leaves the global as it is.
resetKeyManager_kept(promise) == promise

\* resetKeyManager: the new value of the global.
resetKeyManager(promise) ==
    IF promise # NoPromise THEN NoPromise ELSE promise

\* createKeyManager up to its first await: the credential list is asked for.
createKeyManager == [phase |-> "findMany", keys |-> <<>>, maxFailures |-> 0]

PoolIdle == UNCHANGED <<keys, keyCycle, failureCounts, lastFailureTimes, maxFailures,
                        fwd, http, sweep, reports, lastIdx, lastCall, returned, swBase,
                        swResult, touched, during>>

\* Some task calls getKeyManager().
GetKeyManager ==
    LET r == getKeyManager(keyManagerPromise, builds) IN
    /\ r.create => Len(builds) < MaxBuilds
    /\ keyManagerPromise' = r.promise
    /\ builds' = IF r.create THEN Append(builds, createKeyManager) ELSE builds
    /\ created' = IF r.create THEN created + 1 ELSE created
    /\ got' = got \cup {r.promise}
    /\ calls' = IF calls < 2 THEN calls + 1 ELSE calls
    /\ stale' = (stale \/ (~r.create /\ builds[r.promise].phase = "rejected"))
    /\ UNCHANGED <<dbKeys, dbMaxFailures, discarded, resetSeen>>
    /\ PoolIdle

\* createKeyManager: prisma.apiKey.findMany() resolved; getSettings() is awaited.
CreateKeysLoaded(id) ==
    /\ builds[id].phase = "findMany"
    /\ builds' = [builds EXCEPT ![id].phase = "getSettings", ![id].keys = dbKeys]
    /\ UNCHANGED <<keyManagerPromise, dbKeys, dbMaxFailures, got, calls, created,
                   discarded, resetSeen, stale>>
    /\ PoolIdle

\* createKeyManager: getSettings() resolved; the KeyManager is constructed.
CreateSettingsLoaded(id) ==
    /\ builds[id].phase = "getSettings"
    /\ builds' = [builds EXCEPT ![id].phase = "resolved",
                                ![id].maxFailures = dbMaxFailures]
    /\ UNCHANGED <<keyManagerPromise, dbKeys, dbMaxFailures, got, calls, created,
                   discarded, resetSeen, stale>>
    /\ PoolIdle

\* createKeyManager: the store or the settings read rejected; so does the promise.
CreateRejected(id) ==
    /\ builds[id].phase \in {"findMany", "getSettings"}
    /\ builds' = [builds EXCEPT ![id].phase = "rejected"]
    /\ UNCHANGED <<keyManagerPromise, dbKeys, dbMaxFailures, got, calls, created,
                   discarded, resetSeen, stale>>
    /\ PoolIdle

\* Some task calls resetKeyManager().
ResetKeyManager ==
    /\ keyManagerPromise' = resetKeyManager(keyManagerPromise)
    /\ discarded' = discarded \cup ({keyManagerPromise} \ {NoPromise})
    /\ resetSeen' = Len(dbKeys)
    /\ got' = {}
    /\ calls' = 0
    /\ created' = 0
    /\ stale' = FALSE
    /\ UNCHANGED <<builds, dbKeys, dbMaxFailures>>
    /\ PoolIdle

\* An administrator adds a credential to the store.
StoreAddKey ==
    /\ Len(dbKeys) < MaxKeys
    /\ dbKeys' = SubSeq(KeyNames, 1, Len(dbKeys) + 1)
    /\ UNCHANGED <<keyManagerPromise, builds, dbMaxFailures, got, calls, created,
                   discarded, resetSeen, stale>>
    /\ PoolIdle

\* An administrator changes MAX_FAILURES.
StoreSetMaxFailures(mf) ==
    /\ mf # dbMaxFailures
    /\ dbMaxFailures' = mf
    /\ UNCHANGED <<keyManagerPromise, builds, dbKeys, got, calls, created,
                   discarded, resetSeen, stale>>
    /\ PoolIdle

\* The pool a resolved construction hands to its callers.
Instance(id) == KeyManager(builds[id].keys, builds[id].maxFailures)

InitSingleton ==
    LET km == KeyManager(<<>>, DefaultMaxFailures) IN
    /\ SingletonInit
    /\ keys = km.keys
    /\ keyCycle = km.keyCycle
    /\ failureCounts = km.failureCounts
    /\ lastFailureTimes = km.lastFailureTimes
    /\ maxFailures = km.maxFailures
    /\ fwd = [p \in Procs |-> Idle]
    /\ http = [p \in Procs |-> NoRequest]
    /\ sweep = [s \in Sweepers |-> SweepIdle]
    /\ reports = EmptyMap
    /\ lastIdx = 0
    /\ lastCall = Call("constructor", NoKey)
    /\ returned = <<>>
    /\ swBase = EmptyMap
    /\ swResult = <<>>
    /\ touched = {}
    /\ during = EmptyMap

\* The life of the process-wide singleton.
NextSingleton ==
    \/ GetKeyManager
    \/ \E id \in DOMAIN builds : CreateKeysLoaded(id)
    \/ \E id \in DOMAIN builds : CreateSettingsLoaded(id)
    \/ \E id \in DOMAIN builds : CreateRejected(id)
    \/ ResetKeyManager
    \/ StoreAddKey
    \/ \E mf \in Thresholds : StoreSetMaxFailures(mf)

SpecSingleton == InitSingleton /\ [][NextSingleton]_vars

\* ------------------------------------------------------------------ properties

\* The record of a pool credential is healthy: its count is below the threshold.
Healthy(k) == failureCounts[k] < maxFailures

SomeHealthy == \E k \in Range(keys) : Healthy(k)

\* Index in keys of the first healthy record met when going round from the
\* record after index i (i = 0: from the first record).
FirstHealthyAfter(i) ==
    LET n == Len(keys)
        at(d) == ((i + d - 1) % n) + 1
        d0 == CHOOSE d \in 1..n :
                  /\ Healthy(keys[at(d)])
                  /\ \A e \in 1..(d - 1) : ~Healthy(keys[at(e)])
    IN  at(d0)

PoolUnchanged == UNCHANGED <<keys, keyCycle, failureCounts, lastFailureTimes, maxFailures>>

\* C1: on a non-empty pool a selection returns the first healthy record in
\* rotation order after the cursor, never a credential whose count has
\* reached maxFailures, and fails with AllKeysFailing exactly when no record
\* is healthy.
C1_SelectsFirstHealthy ==
    [][\A p \in Procs :
          (ProxySelect(p) /\ keys # <<>>) =>
              IF SomeHealthy
              THEN /\ fwd'[p].pc = "inflight"
                   /\ fwd'[p].key = keys[FirstHealthyAfter(keyCycle)]
                   /\ failureCounts[fwd'[p].key] < maxFailures
                   /\ fwd'[p].err = "none"
              ELSE /\ fwd'[p].pc = "failed"
                   /\ fwd'[p].err = AllKeysFailing]_vars

\* C1 witness: pool [A, B], maxFailures 3, A reported three times and B at 3:
\* one operation still holds A from before, the other's selection failed.
C1_Witness ==
    /\ keys = <<"A", "B">>
    /\ maxFailures = 3
    /\ failureCounts["A"] = 3
    /\ failureCounts["B"] = 3
    /\ \E p, q \in Procs :
          /\ fwd[p].pc = "failed" /\ fwd[p].err = AllKeysFailing
          /\ fwd[q].pc = "inflight" /\ fwd[q].key = "A"

\* C2: the cursor persists across calls: each selection returns the first
\* healthy record after the one the previous selection returned (the first
\* record after construction), wrapping at the end, so N calls on N healthy
\* credentials return each once in records order and the next call returns the
\* first again.
C2_RoundRobinPersists ==
    [][\A p \in Procs :
          (ProxySelect(p) /\ SomeHealthy) =>
              /\ fwd'[p].key = keys[FirstHealthyAfter(lastIdx)]
              /\ lastIdx' = FirstHealthyAfter(lastIdx)
              /\ ((\A k \in Range(keys) : Healthy(k)) =>
                      lastIdx' = (lastIdx % Len(keys)) + 1)]_vars

\* C2 witness: two healthy credentials; B was handed out, then A again (the
\* wrap), and both are still in use.
C2_Witness ==
    /\ keys = <<"A", "B">>
    /\ \A k \in Range(keys) : Healthy(k)
    /\ lastIdx = 1
    /\ \E p, q \in Procs : fwd[p].key = "B" /\ fwd[q].key = "A"

\* C3: the count of a credential equals the number of failure reports made for
\* it since its last reset (or construction), whoever made them, and the
\* credential is valid exactly while that number is below maxFailures.
C3_CountEqualsReports ==
    \A k \in Range(keys) :
        /\ failureCounts[k] = reports[k]
        /\ isKeyValid(failureCounts, maxFailures, k) <=> (reports[k] < maxFailures)

\* C3 witness: more reports than the threshold reached one credential.
C3_Witness ==
    \E k \in Range(keys) :
        /\ maxFailures = 3
        /\ reports[k] = maxFailures + 1
        /\ ~isKeyValid(failureCounts, maxFailures, k)

\* C4: a reset of a known credential sets its count to 0 and removes its
\* lastFailureTime whatever the count was, makes it valid, leaves the other
\* records and the cursor alone, and a second reset changes nothing more.
C4_ResetClears ==
    [][\A key \in Range(keys) :
          CallerResetKeyFailureCount(key) =>
              /\ failureCounts'[key] = 0
              /\ key \notin DOMAIN lastFailureTimes'
              /\ isKeyValid(failureCounts', maxFailures', key)
              /\ DOMAIN failureCounts' = DOMAIN failureCounts
              /\ \A k \in Range(keys) \ {key} :
                    /\ failureCounts'[k] = failureCounts[k]
                    /\ (k \in DOMAIN lastFailureTimes') = (k \in DOMAIN lastFailureTimes)
                    /\ (k \in DOMAIN lastFailureTimes =>
                            lastFailureTimes'[k] = lastFailureTimes[k])
              /\ keyCycle' = keyCycle
              /\ resetKeyFailureCount(failureCounts', lastFailureTimes', key)
                    = [failureCounts |-> failureCounts',
                       lastFailureTimes |-> lastFailureTimes']]_vars

\* C4 witness: a credential was just reset while another is above the threshold.
C4_Witness ==
    /\ lastCall.op = "resetKeyFailureCount"
    /\ lastCall.key \in Range(keys)
    /\ failureCounts[lastCall.key] = 0
    /\ \E k \in Range(keys) : failureCounts[k] > maxFailures

\* C5: when every credential of a non-empty pool is at exactly maxFailures, a
\* selection fails with AllKeysFailing and changes no count and no
\* lastFailureTime.
C5_AllFailing ==
    [][\A p \in Procs :
          (/\ ProxySelect(p)
           /\ keys # <<>>
           /\ \A k \in Range(keys) : failureCounts[k] = maxFailures) =>
              /\ fwd'[p].pc = "failed"
              /\ fwd'[p].err = AllKeysFailing
              /\ failureCounts' = failureCounts
              /\ lastFailureTimes' = lastFailureTimes]_vars

\* C5 witness: a selection has failed and every count is at the threshold.
C5_Witness ==
    /\ Len(keys) = 2
    /\ \A k \in Range(keys) : failureCounts[k] = maxFailures
    /\ \E p \in Procs : fwd[p].pc = "failed" /\ fwd[p].err = AllKeysFailing

\* C6: a pool of zero credentials is constructed like any other, and every
\* selection on it fails with NoKeysAvailable and leaves the pool as it was.
C6_EmptyPool ==
    [][\A p \in Procs :
          (ProxySelect(p) /\ keys = <<>>) =>
              /\ fwd'[p].pc = "failed"
              /\ fwd'[p].err = NoKeysAvailable
              /\ fwd'[p].err # AllKeysFailing
              /\ PoolUnchanged]_vars

\* C6 witness: the empty pool after two selections, both failed.
C6_Witness ==
    /\ keys = <<>>
    /\ failureCounts = EmptyMap
    /\ \A p \in Procs : fwd[p].pc = "failed" /\ fwd[p].err = NoKeysAvailable

\* C10: a failure report or a reset naming a credential that is not in the pool
\* changes nothing: no record appears, no count or time changes, the cursor
\* stays, and the credential is still not valid.
C10_UnknownIgnored ==
    [][\A key \in KeyArgs \ Range(keys) :
          ((\E now \in Times : CallerHandleApiFailure(key, now))
              \/ CallerResetKeyFailureCount(key)) =>
              /\ PoolUnchanged
              /\ key \notin DOMAIN failureCounts'
              /\ key \notin DOMAIN lastFailureTimes'
              /\ ~isKeyValid(failureCounts', maxFailures', key)]_vars

\* C10 witness: a report for the unknown credential was made on a pool that
\* holds failures of its own.
C10_Witness ==
    /\ lastCall = Call("handleApiFailure", UnknownKey)
    /\ \E k \in Range(keys) : failureCounts[k] > 0
    /\ UnknownKey \notin DOMAIN failureCounts

\* C11: getAllKeys and isKeyValid are read-only: a call of either changes
\* neither the cursor nor any count or lastFailureTime, so the next selection
\* returns what it would have returned without the call; the view of
\* getAllKeys lists the records in pool order, each with its count, its time
\* and isWorking = (count < maxFailures), and isKeyValid answers the same
\* for a pool credential and false for any other.
C11_ReadOnly ==
    [][/\ (GetAllKeysCall \/ \E key \in KeyArgs : IsKeyValidCall(key)) =>
              /\ PoolUnchanged
              /\ getNextWorkingKey(keys', keyCycle', failureCounts', maxFailures')
                    = getNextWorkingKey(keys, keyCycle, failureCounts, maxFailures)
       /\ GetAllKeysCall =>
              /\ Len(returned') = Len(keys)
              /\ \A i \in 1..Len(keys) :
                    /\ returned'[i].key = keys[i]
                    /\ returned'[i].failCount = failureCounts[keys[i]]
                    /\ returned'[i].isWorking = (failureCounts[keys[i]] < maxFailures)
                    /\ returned'[i].lastFailedAt =
                          (IF keys[i] \in DOMAIN lastFailureTimes
                           THEN lastFailureTimes[keys[i]] ELSE NoTime)
       /\ \A key \in KeyArgs :
              IsKeyValidCall(key) =>
                  returned' = <<key \in Range(keys) /\ failureCounts[key] < maxFailures>>]_vars

\* C11 witness: the view was taken of a pool whose cursor has moved, with a
\* first credential below the threshold after a failure and a second at it.
C11_Witness ==
    /\ lastCall.op = "getAllKeys"
    /\ Len(returned) = 2
    /\ maxFailures = 3
    /\ keyCycle = 1
    /\ returned[1].failCount = 1 /\ returned[1].isWorking
    /\ returned[1].lastFailedAt # NoTime
    /\ returned[2].failCount = 3 /\ ~returned[2].isWorking
    /\ returned = getAllKeys(keys, failureCounts, lastFailureTimes, maxFailures)

\* The step is a failure report for credential k.
ReportStepFor(k) ==
    \/ \E p \in Procs : fwd[p].key = k /\ ProxyUpstreamFailure(p)
    \/ \E now \in Times : HandleApiFailureCall(k, now)

\* The step is a reset of credential k: a success report or a successful
\* health check.
ResetStepFor(k) ==
    \/ ResetKeyFailureCountCall(k)
    \/ \E s \in Sweepers :
          sweep[s].pc = "fetch" /\ Head(sweep[s].todo) = k /\ VerifyKeyOk(s)

\* C17: every count is a non-negative integer; a step leaves a count as it
\* is, adds exactly 1 to it (and then it is a failure report for that
\* credential) or sets it to 0 (and then it is a reset of that credential);
\* a selection changes no count, and an unhealthy credential becomes healthy
\* only by a reset.
C17_CountSteps ==
    /\ [](/\ DOMAIN failureCounts = Range(keys)
          /\ \A k \in Range(keys) : failureCounts[k] \in Nat)
    /\ [][\A k \in Range(keys) :
             /\ \/ failureCounts'[k] = failureCounts[k]
                \/ failureCounts'[k] = failureCounts[k] + 1 /\ ReportStepFor(k)
                \/ failureCounts'[k] = 0 /\ ResetStepFor(k)
             /\ (~Healthy(k) /\ failureCounts'[k] < maxFailures') => ResetStepFor(k)]_vars
    /\ [][\A p \in Procs :
             ProxySelect(p) =>
                 /\ failureCounts' = failureCounts
                 /\ lastFailureTimes' = lastFailureTimes
                 /\ maxFailures' = maxFailures]_vars

\* C17 witness: A is above the threshold and B untouched; the last selection
\* skipped A and handed out B, which is in use.
C17_Witness ==
    /\ keys = <<"A", "B">>
    /\ failureCounts["A"] = maxFailures + 1
    /\ failureCounts["B"] = 0
    /\ lastIdx = 2
    /\ keyCycle = 0
    /\ \E p \in Procs : fwd[p].pc = "inflight" /\ fwd[p].key = "B"

\* C18: a getNextWorkingKey call on n records inspects at least one and at
\* most n of them, at consecutive indices with wrap-around starting at the
\* cursor, none twice; it returns the last one inspected, the only healthy one
\* among them, and leaves the cursor behind it; or, with all n inspected and
\* none healthy, it fails with AllKeysFailing and the cursor is back where it
\* was before the call.
C18_BoundedCycle ==
    [][\A p \in Procs :
          (ProxySelect(p) /\ keys # <<>>) =>
              LET n == Len(keys)
                  r == getNextWorkingKey(keys, keyCycle, failureCounts, maxFailures)
                  v == r.visited
              IN  /\ Len(v) \in 1..n
                  /\ v[1] = keyCycle + 1
                  /\ \A i \in 1..(Len(v) - 1) : v[i + 1] = (v[i] % n) + 1
                  /\ \A i, j \in 1..Len(v) : i # j => v[i] # v[j]
                  /\ \A i \in 1..(Len(v) - 1) : ~Healthy(keys[v[i]])
                  /\ keyCycle' = v[Len(v)] % n
                  /\ IF fwd'[p].pc = "inflight"
                     THEN /\ fwd'[p].key = keys[v[Len(v)]]
                          /\ Healthy(keys[v[Len(v)]])
                     ELSE /\ fwd'[p].err = AllKeysFailing
                          /\ Len(v) = n
                          /\ ~Healthy(keys[v[Len(v)]])
                          /\ keyCycle' = keyCycle]_vars

\* C18 witness: every key is failing and the cursor is in the middle of the
\* pool; a selection has gone round once and failed.
C18_Witness ==
    /\ Len(keys) = 2
    /\ keyCycle = 1
    /\ \A k \in Range(keys) : ~Healthy(k)
    /\ \E p \in Procs : fwd[p].pc = "failed" /\ fwd[p].err = AllKeysFailing

\* ------------------------------------------------------------------ sweep properties

\* The check of credential k in the watched sweep, if it has been made.
Checked(k) == \E i \in DOMAIN swResult : swResult[i].key = k

CheckedOk(k) == \E i \in DOMAIN swResult : swResult[i].key = k /\ swResult[i].ok

CheckedFailed(k) == \E i \in DOMAIN swResult : swResult[i].key = k /\ ~swResult[i].ok

\* C7 as stated: when the sweep has checked its last credential, every
\* credential whose check succeeded has count 0 and no lastFailureTime, every
\* credential whose check failed has the count it had when the sweep started
\* and is still unhealthy, and no credential that was healthy at the start was
\* checked.
C7_AfterSweep ==
    sweep[Watched].pc = "done" =>
        \A k \in Range(keys) :
            /\ CheckedOk(k) =>
                  /\ failureCounts[k] = 0
                  /\ k \notin DOMAIN lastFailureTimes
            /\ CheckedFailed(k) =>
                  /\ failureCounts[k] = swBase[k]
                  /\ ~Healthy(k)
                  /\ k \in DOMAIN lastFailureTimes
            /\ Checked(k) => k \in DOMAIN swBase

\* What one step of the watched sweep does to the pool.
SweepStepEffect ==
    IF sweep[Watched].pc = "idle" /\ sweep'[Watched].pc # "idle"
    THEN \* the sweep starts: it will check the unhealthy credentials, in pool order
         /\ Range(sweep'[Watched].todo) = {k \in Range(keys) : ~Healthy(k)}
         /\ \A i, j \in DOMAIN sweep'[Watched].todo :
               i < j => IndexOf(keys, sweep'[Watched].todo[i])
                           < IndexOf(keys, sweep'[Watched].todo[j])
         /\ PoolUnchanged
    ELSE IF Len(swResult') = Len(swResult) + 1
    THEN \* one health check has returned
         LET c == swResult'[Len(swResult')] IN
         /\ c.key = Head(sweep[Watched].todo)
         /\ c.key \in DOMAIN swBase
         /\ keyCycle' = keyCycle
         /\ IF c.ok
            THEN /\ failureCounts'[c.key] = 0
                 /\ c.key \notin DOMAIN lastFailureTimes'
                 /\ \A k \in Range(keys) \ {c.key} :
                       /\ failureCounts'[k] = failureCounts[k]
                       /\ (k \in DOMAIN lastFailureTimes') = (k \in DOMAIN lastFailureTimes)
                       /\ (k \in DOMAIN lastFailureTimes =>
                               lastFailureTimes'[k] = lastFailureTimes[k])
            ELSE /\ failureCounts' = failureCounts
                 /\ lastFailureTimes' = lastFailureTimes
    ELSE sweep'[Watched] # sweep[Watched] => PoolUnchanged

\* The counts of the credentials of the watched sweep, whatever the other
\* tasks did meanwhile: what the count was when the sweep started (0 once the
\* credential has been reset) plus the failure reports made since.
SweepResultStands ==
    Sweeping =>
        /\ DOMAIN during = DOMAIN swBase
        /\ \A k \in Range(keys) :
              /\ Checked(k) => k \in DOMAIN swBase
              /\ CheckedOk(k) => swBase[k] = 0
              /\ k \in DOMAIN swBase =>
                    /\ failureCounts[k] = swBase[k] + during[k]
                    /\ failureCounts[k] = reports[k]
                    /\ (k \in DOMAIN lastFailureTimes) = (failureCounts[k] > 0)
                    /\ swBase[k] = 0 \/ swBase[k] >= maxFailures
              /\ (CheckedOk(k) /\ during[k] = 0) =>
                    /\ failureCounts[k] = 0
                    /\ k \notin DOMAIN lastFailureTimes
                    /\ Healthy(k)
              /\ (CheckedFailed(k) /\ swBase[k] > 0) =>
                    /\ failureCounts[k] >= swBase[k]
                    /\ ~Healthy(k)
                    /\ k \in DOMAIN lastFailureTimes

\* C7, amended: the sweep checks only the credentials that were unhealthy when
\* it started; a successful check of X sets X's count to 0 and removes its
\* lastFailureTime, a failed check of Y changes nothing, and no step of the
\* sweep changes any other record.  Whatever other tasks do meanwhile
\* (failure reports, success reports, overlapping sweeps), after the sweep
\* X's count is the number of failure reports made for X since its last
\* reset (0, and no lastFailureTime, if there was none), and Y's count is its
\* count at the start plus the number of failure reports made for Y during
\* the sweep (Y unhealthy), or, if another task reset Y meanwhile, the number
\* of failure reports since that reset.
C7_SweepReactivates ==
    [](SweepResultStands) /\ [][SweepStepEffect]_vars

\* C7 witness: the sweep has checked X with success and Y with failure; X was
\* reported once since its check and Y once during the sweep.
C7_Witness ==
    /\ sweep[Watched].pc = "done"
    /\ \E x, y \in Range(keys) :
          /\ CheckedOk(x) /\ during[x] = 1 /\ failureCounts[x] = 1
          /\ CheckedFailed(y) /\ swBase[y] >= maxFailures /\ during[y] = 1
          /\ failureCounts[y] = swBase[y] + 1 /\ ~Healthy(y)

\* A step of a verifyKey call of task s: from its call to the boolean it returns.
VerifyKeyStep(s) ==
    \/ VerifyKeySettings(s)
    \/ VerifyKeySettingsRejected(s)
    \/ VerifyKeyOk(s)
    \/ VerifyKeyNotOk(s)
    \/ VerifyKeyFetchRejected(s)
    \/ VerifyKeyFailed(s)

\* C12: verifyKey does not mutate pool state itself: no step of a health
\* check, successful or not, changes a failure count or a lastFailureTime.
C12_VerifyKeyWritesNothing ==
    [][(\E s \in Sweepers : VerifyKeyStep(s)) =>
          UNCHANGED <<failureCounts, lastFailureTimes>>]_vars

\* The credentials the watched sweep has checked, in the order of the checks.
CheckedKeys == [i \in 1..Len(swResult) |-> swResult[i].key]

\* The credentials the watched sweep found unhealthy when it started, in pool order.
UnhealthyAtStart == SelectSeq(keys, LAMBDA k : k \in DOMAIN swBase)

\* The credentials the for loop has not called verifyKey for yet, and the one
\* whose call has not returned.
SweepPending(s) == IF sweep[s].pc = "returned" THEN Tail(sweep[s].todo) ELSE sweep[s].todo

\* Awaits the sweep of task s still has to pass before its loop is over.
SweepMeasure(s) ==
    4 * Len(sweep[s].todo) - (CASE sweep[s].pc = "fetch" -> 1
                                [] sweep[s].pc = "json" -> 2
                                [] sweep[s].pc = "returned" -> 3
                                [] OTHER -> 0)

\* A health check that fails, for whichever reason, returns false, and the
\* loop goes on to the next credential whatever a check returned.
SweepFailedCheck ==
    \A s \in Sweepers :
        /\ (VerifyKeyFailed(s) \/ VerifyKeyFetchRejected(s) \/ VerifyKeySettingsRejected(s)) =>
              /\ sweep[s].call = "checkAndReactivateKeys" =>
                    /\ sweep'[s].todo = sweep[s].todo
                    /\ sweep'[s].pc = "returned"
              /\ sweep[s].call = "verifyKey" => sweep'[s] = SweepIdle
              /\ PoolUnchanged
              /\ s = Watched =>
                    swResult' = Append(swResult,
                                       [key |-> Head(sweep[s].todo), ok |-> FALSE,
                                        late |-> FALSE])
        /\ (sweep[s].pc = "returned" /\ sweep'[s] # sweep[s]) =>
              /\ sweep'[s].todo = Tail(sweep[s].todo)
              /\ sweep'[s].pc = (IF Tail(sweep[s].todo) = <<>> THEN "done" ELSE "settings")
              /\ swResult' = swResult
              /\ PoolUnchanged

\* C13: a failed health check (non-2xx answer, transport failure, settings
\* failure) returns false and never ends the sweep; the sweep checks the
\* credentials that were unhealthy when it started one at a time in pool
\* order, each exactly once; it is never stuck, every step of a check brings
\* it closer to the end, and when it ends all of them are checked.
C13_SweepCompletes ==
    /\ [](/\ Sweeping =>
                CheckedKeys \o SweepPending(Watched) = UnhealthyAtStart
          /\ \A s \in Sweepers :
                sweep[s].pc # "idle" =>
                    /\ (sweep[s].pc = "done") = (sweep[s].todo = <<>>)
                    /\ ENABLED (VerifyKeyStep(s) \/ SweepAdvance(s) \/ SweepReturn(s)))
    /\ [][SweepFailedCheck]_vars
    /\ [][\A s \in Sweepers :
             (VerifyKeyStep(s) \/ SweepAdvance(s)) => SweepMeasure(s)' < SweepMeasure(s)]_vars

\* C13 witness: the check of the first credential failed, the sweep went on
\* to check the second with success, and is over.
C13_Witness ==
    /\ sweep[Watched].pc = "done"
    /\ Len(swResult) = 2
    /\ ~swResult[1].ok /\ swResult[1].key = keys[1]
    /\ swResult[2].ok /\ swResult[2].key = keys[2]

\* C20: the sweep does not hold up request traffic, and a successful health
\* check overrides what was reported meanwhile: when the check of X ends with
\* success, X's count is 0 and its lastFailureTime gone however many failures
\* other tasks reported for X since the sweep started, and no other record
\* changes; reports made during the sweep for a credential that has not been
\* reset since are all in its count, on top of what it was.
C20_CheckOverridesReports ==
    /\ [][\A s \in Sweepers :
             VerifyKeyOk(s) =>
                 LET x == Head(sweep[s].todo) IN
                 /\ failureCounts'[x] = 0
                 /\ x \notin DOMAIN lastFailureTimes'
                 /\ reports'[x] = 0
                 /\ s = Watched =>
                       swResult'[Len(swResult')] =
                           [key |-> x, ok |-> TRUE,
                            late |-> failureCounts[x] > swBase[x]]
                 /\ \A k \in Range(keys) \ {x} :
                       /\ failureCounts'[k] = failureCounts[k]
                       /\ (k \in DOMAIN lastFailureTimes') = (k \in DOMAIN lastFailureTimes)
                       /\ (k \in DOMAIN lastFailureTimes =>
                               lastFailureTimes'[k] = lastFailureTimes[k])]_vars
    /\ [](Sweeping =>
             /\ \A k \in touched :
                   /\ failureCounts[k] = reports[k]
                   /\ failureCounts[k] >= 1
                   /\ k \in DOMAIN lastFailureTimes
                   /\ k \in DOMAIN swBase =>
                         /\ during[k] >= 1
                         /\ failureCounts[k] = swBase[k] + during[k]
                         /\ failureCounts[k] > swBase[k]
             /\ ENABLED GetNextWorkingKeyCall)

\* C20 witness: while X's check was in flight another task reported a failure
\* for X, and one for Y; the check of X succeeded: X is at 0, Y keeps its
\* report.
C20_Witness ==
    \E x, y \in Range(keys) :
        /\ x # y
        /\ Sweeping
        /\ \E i \in DOMAIN swResult :
              swResult[i].key = x /\ swResult[i].ok /\ swResult[i].late
        /\ failureCounts[x] = 0
        /\ x \notin DOMAIN lastFailureTimes
        /\ y \in touched
        /\ failureCounts[y] >= 1

\* ------------------------------------------------------------------ route properties

\* The handler serving p has invoked its core: proxyRequest, or, in the
\* embeddings handler, the call of the upstream proxy and what precedes it,
\* or, in the images handler, callImagenApi and the read of the prompt.
CoreInvoked(p) ==
    \/ http[p].pc \in {"core", "settings", "body", "fetch", "reqjson", "imagen"}
    \/ http[p].tries > 0
    \/ http[p].route # "none" /\ fwd[p].pc # "idle"

\* C14: in every route handler the core is reached only after isAuthenticated
\* has run and reported no error, and a request whose authentication failed
\* is answered with the authentication error without the proxy having been
\* invoked or a credential taken from the pool.
C14_AuthBeforeCore ==
    \A p \in Procs :
        /\ CoreInvoked(p) => http[p].authed
        /\ http[p].body = "authError" =>
              /\ ~http[p].authed
              /\ http[p].tries = 0
              /\ fwd[p].pc = "idle"

\* The serving task's forwarded call was answered non-2xx and is about to be
\* returned to the client.
RelayedError(p) ==
    /\ http[p].pc = "done"
    /\ http[p].route \in {"gemini", "v1beta", "models"}
    /\ http[p].body = "upstream"
    /\ http[p].status \in UpstreamErrors

\* C15: when the upstream answers a forwarded call non-2xx, the handler's
\* response carries that status and the upstream body, the count of the
\* credential the call used goes up by exactly 1 and no other count changes;
\* the failure is in the pool when the response is returned, and one inbound
\* call takes one credential and makes one upstream attempt.
C15_UpstreamErrorRelayed ==
    /\ [][\A p \in Servers, st \in UpstreamErrors :
             RouteRelayError(p, st) =>
                 /\ http'[p].status = st
                 /\ http'[p].body = "upstream"
                 /\ failureCounts'[fwd[p].key] = failureCounts[fwd[p].key] + 1
                 /\ fwd[p].key \in DOMAIN lastFailureTimes'
                 /\ \A k \in Range(keys) \ {fwd[p].key} :
                       failureCounts'[k] = failureCounts[k]
                 /\ keyCycle' = keyCycle
                 /\ fwd'[p] = Idle
                 /\ http'[p].tries = 1]_vars
    /\ [](\A p \in Servers :
             /\ http[p].tries <= 1
             /\ RelayedError(p) =>
                   /\ failureCounts[keys[lastIdx]] >= 1
                   /\ keys[lastIdx] \in DOMAIN lastFailureTimes
                   /\ fwd[p] = Idle)

\* C15 witness: a call forwarded with B was answered 429; the 429 and its
\* body are the response, B has one failure and A none.
C15_Witness ==
    \E p \in Servers :
        /\ RelayedError(p)
        /\ http[p].status = 429
        /\ keys = <<"A", "B">>
        /\ lastIdx = 2
        /\ failureCounts["B"] = 1
        /\ failureCounts["A"] = 0

\* What the try block of a handler can throw.
Thrown == {NoKeysAvailable, AllKeysFailing, "TransportError", "ConfigurationError",
           "AuthUnavailable", "BodyError"} \cup ImagenErrors

\* C16: whenever the try block of a route handler throws (empty pool, all
\* keys failing, transport or configuration failure), the handler answers
\* with status 500 and the body "Internal Server Error", which carries
\* nothing of the error; so it does when logErrorToDB itself rejects; the
\* error never leaves the handler.
C16_GenericError ==
    /\ [](\A p \in Servers :
             /\ http[p].err # "none" =>
                   /\ http[p].err \in Thrown
                   /\ http[p].pc \in {"logging", "done"}
             /\ (http[p].err # "none" /\ http[p].pc = "done") =>
                   /\ http[p].status = 500
                   /\ http[p].body = GenericBody
                   /\ http[p].body # http[p].err
             /\ http[p].pc = "logging" => ENABLED (RouteLogged(p) \/ RouteLogFailed(p)))
    /\ [][\A p \in Servers :
             (RouteLogged(p) \/ RouteLogFailed(p)) =>
                 /\ http'[p].pc = "done"
                 /\ http'[p].status = 500
                 /\ http'[p].body = GenericBody
                 /\ PoolUnchanged]_vars

\* C16 witness: every key was failing, the selection threw, writing the error
\* to the audit sink failed as well, and the answer is the generic 500.
C16_Witness ==
    \E p \in Servers :
        /\ http[p].pc = "done"
        /\ http[p].err = AllKeysFailing
        /\ http[p].logFailed
        /\ http[p].status = 500
        /\ http[p].body = GenericBody
        /\ keys # <<>>

\* ------------------------------------------------------------------ singleton properties

\* C8: between two resets, however many getKeyManager calls are made and
\* whatever the state of the construction, createKeyManager is started at
\* most once and every call returns the one promise installed in the global;
\* the pool that promise resolved to is not replaced.
C8_OneConstruction ==
    /\ [](/\ created <= 1
          /\ Cardinality(got) <= 1
          /\ got \subseteq {keyManagerPromise})
    /\ [][\A id \in DOMAIN builds :
             builds[id].phase = "resolved" => builds'[id] = builds[id]]_vars

\* C8 witness: two calls were made while the construction they share was
\* still awaiting the credential store.
C8_Witness ==
    /\ calls = 2
    /\ created = 1
    /\ keyManagerPromise # NoPromise
    /\ got = {keyManagerPromise}
    /\ builds[keyManagerPromise].phase = "findMany"

\* C9: a reset empties the global; the next getKeyManager call starts a new
\* construction, which reads the store again (it sees every credential the
\* store held at the reset); no call after the reset returns a discarded
\* construction, completed or not.
C9_ResetRebuilds ==
    /\ [](/\ keyManagerPromise \notin discarded
          /\ got \cap discarded = {}
          /\ (/\ keyManagerPromise # NoPromise
              /\ builds[keyManagerPromise].phase \in {"getSettings", "resolved"})
                 => Len(builds[keyManagerPromise].keys) >= resetSeen)
    /\ [][/\ ResetKeyManager => keyManagerPromise' = NoPromise
          /\ (GetKeyManager /\ keyManagerPromise = NoPromise) =>
                /\ Len(builds') = Len(builds) + 1
                /\ keyManagerPromise' = Len(builds')
                /\ builds'[keyManagerPromise'].phase = "findMany"]_vars

\* C9 witness: the first construction was discarded before it completed and
\* is still running; a call after the reset got the second one, whose pool
\* holds a credential added in between.
C9_Witness ==
    /\ discarded = {1}
    /\ builds[1].phase = "findMany"
    /\ keyManagerPromise = 2
    /\ got = {2}
    /\ builds[2].phase = "resolved"
    /\ resetSeen >= 1
    /\ Instance(2).keys # <<>>


\* The construction installed in the global has failed.
FailedInstalled ==
    /\ keyManagerPromise # NoPromise
    /\ builds[keyManagerPromise].phase = "rejected"

\* C19: a construction that failed stays installed: a getKeyManager call
\* returns it and starts no new construction, a failed construction never
\* changes, and only resetKeyManager removes it from the global; after the
\* reset the next getKeyManager call starts a fresh construction.
C19_FailureSticks ==
    /\ [][(GetKeyManager /\ FailedInstalled) =>
             /\ keyManagerPromise' = keyManagerPromise
             /\ builds' = builds
             /\ created' = created
             /\ keyManagerPromise \in got']_vars
    /\ [][/\ \A id \in DOMAIN builds :
                builds[id].phase = "rejected" => builds'[id] = builds[id]
          /\ (FailedInstalled /\ keyManagerPromise' # keyManagerPromise) =>
                /\ ResetKeyManager
                /\ keyManagerPromise' = NoPromise]_vars
    /\ [][(GetKeyManager /\ keyManagerPromise = NoPromise) =>
             /\ Len(builds') = Len(builds) + 1
             /\ keyManagerPromise' = Len(builds')
             /\ keyManagerPromise' \notin discarded
             /\ builds'[keyManagerPromise'].phase = "findMany"]_vars
    /\ [](stale => FailedInstalled /\ created <= 1)

\* C19 witness: the first construction failed and was reset away; the call
\* after the reset started the second, which failed as well and has since
\* been handed out again.
C19_Witness ==
    /\ discarded = {1}
    /\ builds[1].phase = "rejected"
    /\ keyManagerPromise = 2
    /\ FailedInstalled
    /\ stale
    /\ calls = 2
    /\ created = 1
    /\ got = {2}

=============================================================================
